---- MODULE Spec2Model ----
(***************************************************************************)
(* Model of the SEO site crawler (src/seo_crawler.py) and of its robots    *)
(* gate (src/utils/robots_parser.py).                                      *)
(*                                                                         *)
(* One analyze_page invocation is one task.  The task started by crawl     *)
(* runs on the main thread; every other task is a work item submitted to   *)
(* the ThreadPoolExecutor its parent created.  A task is named by the      *)
(* path of link positions that leads to it from the root: << >> is the     *)
(* analysis of the base URL, <<2>> the task submitted for the second link  *)
(* of the base page, <<2, 1>> the task submitted for the first link of     *)
(* that page.  Threads interleave between the statements of analyze_page,  *)
(* so every statement that reads or writes shared state is its own step.   *)
(***************************************************************************)
EXTENDS Integers, Sequences, FiniteSets, TLC

\* The --depth the run is configured with (self.depth) in the standard runs.
MaxDepth == 1

\* How many times crawl() is invoked on one crawler instance.
MaxCrawls == 2

\* the most headings of one level a page of the heading site carries
MaxHeadingCount == 2

\* ThreadPoolExecutor(max_workers=5)
MaxWorkers == 5

-----------------------------------------------------------------------------
(* URLs.  A URL string is modelled by its parsed components; the path is   *)
(* the sequence of its segments.                                            *)

Url(scheme, netloc, path, fragment) ==
    [scheme |-> scheme, netloc |-> netloc, path |-> path, fragment |-> fragment]

\* --url of a well-formed run
BaseUrl == Url("https", "ex.com", << >>, "")

\* --url that is not a URL (no scheme, no host)
BadBaseUrl == Url("", "", <<"nowhere">>, "")

\* An href attribute: a full URL, an absolute-path reference, a pure
\* fragment reference, or the empty string.  An anchor is its href and the
\* element it sits in ("body", or one of "nav", "header", "footer").
AbsHref(u) == [kind |-> "abs", url |-> u]
PathHref(p) == [kind |-> "path", path |-> p]
FragHref(f) == [kind |-> "frag", fragment |-> f]
EmptyHref == [kind |-> "empty"]
Anchor(href, inside) == [href |-> href, inside |-> inside]
InBody(href) == Anchor(href, "body")

\* urllib.parse.urljoin(current_url, href)
UrlJoin(base, href) ==
    CASE href.kind = "abs" -> href.url
      [] href.kind = "path" -> [base EXCEPT !.path = href.path, !.fragment = ""]
      [] href.kind = "frag" -> [base EXCEPT !.fragment = href.fragment]
      [] OTHER -> base

-----------------------------------------------------------------------------
(* The web the crawler runs against.  What a server answers depends on the *)
(* path only (the fragment is never sent).  A response either fails at the *)
(* transport level ("raise": connection error or timeout) or carries a     *)
(* status and a body; a body is described by the hrefs of its anchors and  *)
(* by whether the analyzers get through it, and by the number of h1 .. h6   *)
(* elements it holds, which the server fills in for every page it serves.  *)

\* range(1, 7): the heading levels h1 .. h6
HeadingLevels == 1..6

NoHeadings == [i \in HeadingLevels |-> 0]

\* one h1, one h2 and no h3 .. h6
OneH1OneH2 == [i \in HeadingLevels |-> IF i <= 2 THEN 1 ELSE 0]

Page(status, anchors, analysable) ==
    [outcome |-> "response", status |-> status, anchors |-> anchors,
     analysable |-> analysable, headings |-> NoHeadings]

NoResponse == [outcome |-> "raise", status |-> 0, anchors |-> << >>,
               analysable |-> FALSE, headings |-> NoHeadings]

\* The standard site:
\*   /           200, links /a, /a, /private/p, /err
\*   /a          404 whose error page links to /n
\*   /n, /n/n, /n/n/n, ...   200, each links to the next one
\*   /private/p  200, a page on which the analyzers raise
\*   /err        the connection fails
StdSite(path) ==
    CASE path = << >> ->
           Page(200, <<InBody(PathHref(<<"a">>)), InBody(PathHref(<<"a">>)),
                       InBody(PathHref(<<"private", "p">>)), InBody(PathHref(<<"err">>))>>, TRUE)
      [] path = <<"a">> -> Page(404, <<InBody(PathHref(<<"n">>))>>, TRUE)
      [] path # << >> /\ (\A i \in 1..Len(path) : path[i] = "n") ->
           Page(200, <<InBody(PathHref(Append(path, "n")))>>, TRUE)
      [] path = <<"private", "p">> -> Page(200, << >>, FALSE)
      [] OTHER -> NoResponse

\* The wide site:
\*   /           200, links /w, /private/x (five times)
\*   /w          200, links /err (twice)
\*   /private/x  200, no links
\*   /err        the connection fails
WideSite(path) ==
    CASE path = << >> ->
           Page(200, <<InBody(PathHref(<<"w">>)), InBody(PathHref(<<"private", "x">>)),
                       InBody(PathHref(<<"private", "x">>)), InBody(PathHref(<<"private", "x">>)),
                       InBody(PathHref(<<"private", "x">>)), InBody(PathHref(<<"private", "x">>))>>,
                TRUE)
      [] path = <<"w">> ->
           Page(200, <<InBody(PathHref(<<"err">>)), InBody(PathHref(<<"err">>))>>, TRUE)
      [] path = <<"private", "x">> -> Page(200, << >>, TRUE)
      [] OTHER -> NoResponse

\* The link site:
\*   /           200; in its nav a link /c; in its body the hrefs "#top", "",
\*               https://other.com/x, http://ex.com/b, mailto:, /err
\*   /b          200, links /private/p, and /c in its footer
\*   /c          200, no links
\*   /private/p  200, no links
\*   /err        the connection fails
LinkSite(path) ==
    CASE path = << >> ->
           Page(200, <<Anchor(PathHref(<<"c">>), "nav"),
                       InBody(FragHref("top")),
                       InBody(EmptyHref),
                       InBody(AbsHref(Url("https", "other.com", <<"x">>, ""))),
                       InBody(AbsHref(Url("http", "ex.com", <<"b">>, ""))),
                       InBody(AbsHref(Url("mailto", "", <<"me">>, ""))),
                       InBody(PathHref(<<"err">>))>>, TRUE)
      [] path = <<"b">> ->
           Page(200, <<InBody(PathHref(<<"private", "p">>)),
                       Anchor(PathHref(<<"c">>), "footer")>>, TRUE)
      [] path \in {<<"c">>, <<"private", "p">>} -> Page(200, << >>, TRUE)
      [] OTHER -> NoResponse

\* The diamond site:
\*   /    200, links /a, /x
\*   /a   200, links /x
\*   /x   200, links /y
\*   /y   200, no links
DiamondSite(path) ==
    CASE path = << >> ->
           Page(200, <<InBody(PathHref(<<"a">>)), InBody(PathHref(<<"x">>))>>, TRUE)
      [] path = <<"a">> -> Page(200, <<InBody(PathHref(<<"x">>))>>, TRUE)
      [] path = <<"x">> -> Page(200, <<InBody(PathHref(<<"y">>))>>, TRUE)
      [] path = <<"y">> -> Page(200, << >>, TRUE)
      [] OTHER -> NoResponse

\* The heading site:
\*   /    200, links /h
\*   /h   200, no links
HeadingSite(path) ==
    CASE path = << >> -> Page(200, <<InBody(PathHref(<<"h">>))>>, TRUE)
      [] path = <<"h">> -> Page(200, << >>, TRUE)
      [] OTHER -> NoResponse

\* requests.get(url, ...): raises on a string that is no URL, otherwise the
\* answer of the host asked (only ex.com is up); every body served carries
\* the headings of the site w
HttpGet(w, url) ==
    LET page == IF ~(url.scheme \in {"http", "https"} /\ url.netloc = "ex.com")
                THEN NoResponse
                ELSE IF w.site = "wide" THEN WideSite(url.path)
                ELSE IF w.site = "link" THEN LinkSite(url.path)
                ELSE IF w.site = "diamond" THEN DiamondSite(url.path)
                ELSE IF w.site = "heading" THEN HeadingSite(url.path)
                ELSE StdSite(url.path)
    IN  IF page.outcome = "raise" THEN page
        ELSE [page EXCEPT !.headings = w.headings]

\* What the fetch of /robots.txt can come to.
RobotsOutcomes == {"rules", "undecodable", "urlerror", "http403", "http404", "http503"}

\* The Disallow lines of the site's robots.txt (User-agent: *)
RobotsRules == << [path |-> <<"private">>, allowance |-> FALSE] >>

-----------------------------------------------------------------------------
VARIABLES
    web,            \* the site crawled, what its /robots.txt fetch comes to, and
                    \* the headings of its pages
    base_url,       \* self.base_url
    self_depth,     \* self.depth
    ignore_robots,  \* self.ignore_robots
    crawl_calls,    \* number of invocations of crawl() so far
    mainPc,         \* position of main(): "start", "constructed", "crawling", "returned"
    parser,         \* self.robots_parser.parser
    robots_reads,   \* number of fetches of /robots.txt so far
    visited_urls,   \* self.visited_urls
    tasks,          \* the analyze_page invocations of the run
    results         \* self.results

\* what the run is given and never changes
config == <<web, base_url, self_depth, ignore_robots>>

vars == <<config, crawl_calls, mainPc, parser, robots_reads, visited_urls,
          tasks, results>>

\* validators.url(url): a well-formed absolute http(s) URL
ValidatorsUrl(url) == url.scheme \in {"http", "https"} /\ url.netloc # ""

\* variant: any well-formed URL is taken, whatever its host
IsValidUrlAnyHost(url) == ValidatorsUrl(url)

\* SEOCrawler.is_valid_url
IsValidUrl(url) ==
    IF ~ValidatorsUrl(url) THEN FALSE ELSE url.netloc = base_url.netloc

RECURSIVE ExtractFrom(_, _)
ExtractFrom(anchors, current_url) ==
    IF anchors = << >> THEN << >>
    ELSE LET absolute_url == UrlJoin(current_url, Head(anchors).href)
             rest == ExtractFrom(Tail(anchors), current_url)
         IN  IF IsValidUrl(absolute_url) THEN <<absolute_url>> \o rest ELSE rest

\* SEOCrawler.extract_links: soup.find_all('a', href=True) in document order
ExtractLinks(soup, current_url) == ExtractFrom(soup.anchors, current_url)

-----------------------------------------------------------------------------
(* The robots gate.                                                        *)

\* self.parser = None
None == [kind |-> "None"]

\* urllib.robotparser.RobotFileParser() as constructed
NewRobotFileParser ==
    [kind |-> "RobotFileParser", disallow_all |-> FALSE, allow_all |-> FALSE,
     last_checked |-> 0, rulelines |-> << >>]

\* RobotFileParser.read(): an HTTP error status is handled inside read and
\* does not raise; a retrieved file is parsed, which stamps last_checked.
\* Returns the parser after the call and whether the call raised.
ParserRead(p, outcome) ==
    CASE outcome = "http403" -> [raised |-> FALSE, parser |-> [p EXCEPT !.disallow_all = TRUE]]
      [] outcome = "http404" -> [raised |-> FALSE, parser |-> [p EXCEPT !.allow_all = TRUE]]
      [] outcome = "http503" -> [raised |-> FALSE, parser |-> p]
      [] outcome = "rules" ->
           [raised |-> FALSE,
            parser |-> [p EXCEPT !.last_checked = 1, !.rulelines = RobotsRules]]
      [] OTHER -> [raised |-> TRUE, parser |-> p]

\* RobotsParser.initialize_parser
InitializeParser(p, outcome) ==
    LET r == ParserRead(p, outcome)
    IN  IF r.raised THEN None ELSE r.parser

IsPrefix(s, t) == Len(s) <= Len(t) /\ SubSeq(t, 1, Len(s)) = s

\* Entry.allowance: the first rule line that applies decides
RECURSIVE Allowance(_, _)
Allowance(rulelines, path) ==
    IF rulelines = << >> THEN TRUE
    ELSE IF IsPrefix(Head(rulelines).path, path) THEN Head(rulelines).allowance
    ELSE Allowance(Tail(rulelines), path)

\* RobotFileParser.can_fetch('*', url)
ParserCanFetch(p, url) ==
    IF p.disallow_all THEN FALSE
    ELSE IF p.allow_all THEN TRUE
    ELSE IF p.last_checked = 0 THEN FALSE
    ELSE Allowance(p.rulelines, url.path)

\* RobotsParser.can_fetch
CanFetch(p, url) ==
    IF p = None THEN TRUE ELSE ParserCanFetch(p, url)

-----------------------------------------------------------------------------
(* analyze_page, statement by statement.                                   *)

\* variant: the depth test is off by one
EntryExcludedOffByOne(url, depth, visited) == depth > self_depth + 1 \/ url \in visited

\* line 68: if depth > self.depth or url in self.visited_urls
EntryExcluded(url, depth, visited) == depth > self_depth \/ url \in visited

\* variant: the answer of the robots gate is not used
RobotsBlockedNever(ignore, p, url) == FALSE

\* line 71: if not self.ignore_robots and not self.robots_parser.can_fetch(url)
RobotsBlocked(ignore, p, url) == ~ignore /\ ~CanFetch(p, url)

\* line 79: BeautifulSoup(content, 'lxml')
Parse(page) == [anchors |-> page.anchors, headings |-> page.headings]

\* 'Missing H1 tag', 'Multiple H1 tags'
Issue(text) == [issue |-> text]

\* f'Skipped heading level: h{last_level} to h{i}'
SkippedIssue(last_level, i) ==
    [issue |-> "Skipped heading level", from |-> last_level, to |-> i]

\* seo_analyzer.py lines 86-91: the loop over i = 2 .. 6 from step i on,
\* last_level being what the steps before it left
RECURSIVE SkippedLevels(_, _, _)
SkippedLevels(headings, i, last_level) ==
    IF i > 6 THEN << >>
    ELSE (IF headings[i] > 0 /\ headings[last_level] = 0
          THEN <<SkippedIssue(last_level, i)>>
          ELSE << >>)
         \o SkippedLevels(headings, i + 1,
                          IF headings[i] > 0 THEN i ELSE last_level)

\* SEOAnalyzer._check_heading_structure
CheckHeadingStructure(headings) ==
    (IF headings[1] = 0 THEN <<Issue("Missing H1 tag")>>
     ELSE IF headings[1] > 1 THEN <<Issue("Multiple H1 tags")>>
     ELSE << >>)
    \o SkippedLevels(headings, 2, 1)

\* SEOAnalyzer.analyze_headings: the soup's count of every level
AnalyzeHeadings(soup) ==
    [heading_count |-> soup.headings,
     has_h1 |-> soup.headings[1] > 0,
     multiple_h1 |-> soup.headings[1] > 1,
     heading_structure_issues |-> CheckHeadingStructure(soup.headings)]

\* SEOAnalyzer.analyze, as far as it looks at the headings and at the
\* anchors (analyze_links)
SeoAnalyze(soup, url) ==
    [headings |-> AnalyzeHeadings(soup), total_links |-> Len(soup.anchors)]

\* PerformanceAnalyzer.analyze: works on the raw content, not on the soup
PerformanceAnalyze(page) == [html_anchors |-> Len(page.anchors)]

\* ContentAnalyzer.extract_text_content: decompose() removes every script,
\* style, nav, header and footer element from the soup it was given; the
\* value is the soup as it is left behind
ExtractTextContent(soup) ==
    [soup EXCEPT !.anchors =
        SelectSeq(@, LAMBDA a : a.inside \notin {"nav", "header", "footer"})]

\* ContentAnalyzer.analyze, as far as it depends on the soup left behind
ContentAnalyze(stripped) == [text_elements |-> Len(stripped.anchors)]

\* lines 82-84: the three analyzers in the order they are called; soup is
\* the parsed page as the calls leave it
Analyze(url, soup, page) ==
    LET stripped == ExtractTextContent(soup)
    IN  [seo_metrics |-> SeoAnalyze(soup, url),
         performance_metrics |-> PerformanceAnalyze(page),
         content_metrics |-> ContentAnalyze(stripped),
         soup |-> stripped]

\* variant: the record stores the depth its children are analysed at
PageResultChildDepth(url, depth, page) ==
    LET m == Analyze(url, Parse(page), page)
    IN  [url |-> url, depth |-> depth + 1, seo_metrics |-> m.seo_metrics,
         performance_metrics |-> m.performance_metrics,
         content_metrics |-> m.content_metrics,
         links |-> ExtractLinks(m.soup, url)]

\* lines 82-96: the result of a page that was fetched and analysed
PageResult(url, depth, page) ==
    LET m == Analyze(url, Parse(page), page)
    IN  [url |-> url, depth |-> depth, seo_metrics |-> m.seo_metrics,
         performance_metrics |-> m.performance_metrics,
         content_metrics |-> m.content_metrics,
         links |-> ExtractLinks(m.soup, url)]

\* variant: the except branch returns the message alone
ErrorRecordNoUrl(url, depth, e) == [error |-> e]

\* line 109: the record returned from the except branch
ErrorRecord(url, depth, e) == [url |-> url, error |-> e]

\* return {}
Empty == << >>

\* line 102: for link in links if link not in self.visited_urls
Submits(link, visited) == link \notin visited

\* variant: the parent reads its children's outcomes and gives up on a failure
ReturnValueOrChildError(result, childResults) ==
    IF \E c \in DOMAIN childResults : "error" \in DOMAIN childResults[c]
    THEN [url |-> result.url, error |-> "child failed"]
    ELSE result

\* line 105: the value analyze_page returns after its executor shut down;
\* the futures of the children are never read
ReturnValue(result, childResults) == result

TaskIds == DOMAIN tasks
Children(t) == {c \in TaskIds : Len(c) = Len(t) + 1 /\ SubSeq(c, 1, Len(t)) = t}
Parent(c) == SubSeq(c, 1, Len(c) - 1)
Started(t) == tasks[t].pc \notin {"pending", "returned"}

\* variant: no worker of the executor is free to take a queued work item
\* (the workers are held by invocations that wait for their own children)
PoolExhausted(running) == FALSE

\* variant: the executor starts a thread for every work item
PoolUnbounded(running) == TRUE

\* ThreadPoolExecutor: a queued work item is taken when fewer than
\* max_workers items of the same executor are being run
PoolHasWorker(running) == running < MaxWorkers

\* variant: shutdown(wait=False)
ShutdownNoWait(childPcs) == TRUE

\* ThreadPoolExecutor.__exit__: shutdown(wait=True) joins the workers, which
\* exit once every submitted work item has been run
ShutdownDone(childPcs) == \A p \in childPcs : p = "returned"

NewTask(url, depth, pc) ==
    [url |-> url, depth |-> depth, pc |-> pc, checked |-> FALSE,
     fetched |-> FALSE, page |-> NoResponse, soup |-> Parse(NoResponse),
     idx |-> 1, result |-> Empty]

Returned(task, value) == [task EXCEPT !.pc = "returned", !.result = value]

\* urlopen(robots_url): raises on a string that is no URL, otherwise what
\* the site's /robots.txt comes to
RobotsFetch(base, outcome) == IF ValidatorsUrl(base) THEN outcome ELSE "urlerror"

\* SEOCrawler.__init__: RobotsParser(base_url) reads /robots.txt
Construct ==
    /\ mainPc = "start"
    /\ parser' = InitializeParser(NewRobotFileParser,
                                  RobotsFetch(base_url, web.robots))
    /\ robots_reads' = robots_reads + 1
    /\ mainPc' = "constructed"
    /\ UNCHANGED <<config, crawl_calls, visited_urls, tasks, results>>

\* SEOCrawler.crawl, up to the call of analyze_page(self.base_url, 0); the
\* method can be invoked again once it has returned
Crawl ==
    /\ mainPc \in {"constructed", "returned"}
    /\ crawl_calls < MaxCrawls
    /\ crawl_calls' = crawl_calls + 1
    /\ tasks' = (<< >> :> NewTask(base_url, 0, "check"))
    /\ mainPc' = "crawling"
    /\ UNCHANGED <<config, parser, robots_reads, visited_urls, results>>

\* A pool worker takes the next queued work item of its executor.
StartTask ==
    \E c \in TaskIds :
        /\ tasks[c].pc = "pending"
        /\ \A s \in Children(Parent(c)) :
               s[Len(s)] < c[Len(c)] => tasks[s].pc # "pending"
        /\ PoolHasWorker(Cardinality({s \in Children(Parent(c)) : Started(s)}))
        /\ tasks' = [tasks EXCEPT ![c].pc = "check"]
        /\ UNCHANGED <<config, crawl_calls, mainPc, parser, robots_reads,
                       visited_urls, results>>

\* lines 68-69
CheckVisited ==
    \E t \in TaskIds :
        /\ tasks[t].pc = "check"
        /\ tasks' = [tasks EXCEPT ![t] =
               IF EntryExcluded(tasks[t].url, tasks[t].depth, visited_urls)
               THEN Returned(@, Empty)
               ELSE [@ EXCEPT !.pc = "gate"]]
        /\ UNCHANGED <<config, crawl_calls, mainPc, parser, robots_reads,
                       visited_urls, results>>

\* variant: every permission check reads robots.txt again
RobotsGateRereads ==
    \E t \in TaskIds :
        /\ tasks[t].pc = "gate"
        /\ robots_reads' = robots_reads + (IF ignore_robots THEN 0 ELSE 1)
        /\ tasks' = [tasks EXCEPT ![t] =
               IF RobotsBlocked(ignore_robots, parser, tasks[t].url)
               THEN Returned([@ EXCEPT !.checked = ~ignore_robots], Empty)
               ELSE [@ EXCEPT !.checked = ~ignore_robots, !.pc = "add"]]
        /\ UNCHANGED <<config, crawl_calls, mainPc, parser, visited_urls, results>>

\* variant: the URL is recorded as visited before the gate's answer is used
RobotsGateMarksFirst ==
    \E t \in TaskIds :
        /\ tasks[t].pc = "gate"
        /\ visited_urls' = visited_urls \cup {tasks[t].url}
        /\ tasks' = [tasks EXCEPT ![t] =
               IF RobotsBlocked(ignore_robots, parser, tasks[t].url)
               THEN Returned([@ EXCEPT !.checked = ~ignore_robots], Empty)
               ELSE [@ EXCEPT !.checked = ~ignore_robots, !.pc = "add"]]
        /\ UNCHANGED <<config, crawl_calls, mainPc, parser, robots_reads, results>>

\* lines 71-73
RobotsGate ==
    \E t \in TaskIds :
        /\ tasks[t].pc = "gate"
        /\ tasks' = [tasks EXCEPT ![t] =
               IF RobotsBlocked(ignore_robots, parser, tasks[t].url)
               THEN Returned([@ EXCEPT !.checked = ~ignore_robots], Empty)
               ELSE [@ EXCEPT !.checked = ~ignore_robots, !.pc = "add"]]
        /\ UNCHANGED <<config, crawl_calls, mainPc, parser, robots_reads,
                       visited_urls, results>>

\* line 75
MarkVisited ==
    \E t \in TaskIds :
        /\ tasks[t].pc = "add"
        /\ visited_urls' = visited_urls \cup {tasks[t].url}
        /\ tasks' = [tasks EXCEPT ![t].pc = "fetch"]
        /\ UNCHANGED <<config, crawl_calls, mainPc, parser, robots_reads, results>>

\* line 78 (get_page_content), and lines 107-109 when the request raises
FetchPage ==
    \E t \in TaskIds :
        /\ tasks[t].pc = "fetch"
        /\ LET response == HttpGet(web, tasks[t].url)
           IN  tasks' = [tasks EXCEPT ![t] =
                   IF response.outcome = "raise"
                   THEN Returned([@ EXCEPT !.fetched = TRUE],
                                 ErrorRecord(@.url, @.depth, "request failed"))
                   ELSE [@ EXCEPT !.fetched = TRUE, !.page = response,
                                  !.pc = "analyze"]]
        /\ UNCHANGED <<config, crawl_calls, mainPc, parser, robots_reads,
                       visited_urls, results>>

\* lines 79-96, and lines 107-109 when parsing or an analyzer raises
AnalyzeContent ==
    \E t \in TaskIds :
        /\ tasks[t].pc = "analyze"
        /\ tasks' = [tasks EXCEPT ![t] =
               IF ~@.page.analysable
               THEN Returned(@, ErrorRecord(@.url, @.depth, "analysis failed"))
               ELSE LET result == PageResult(@.url, @.depth, @.page)
                        soup == Analyze(@.url, Parse(@.page), @.page).soup
                    IN  [@ EXCEPT !.result = result, !.soup = soup,
                                  !.pc = IF result.links = << >> THEN "wait"
                                         ELSE "submit"]]
        /\ UNCHANGED <<config, crawl_calls, mainPc, parser, robots_reads,
                       visited_urls, results>>

\* lines 99-103: one iteration of the comprehension that submits the children
SubmitLink ==
    \E t \in TaskIds :
        /\ tasks[t].pc = "submit"
        /\ LET links == tasks[t].result.links
               i == tasks[t].idx
               c == Append(t, i)
               advanced == [tasks EXCEPT ![t].idx = i + 1,
                                         ![t].pc = IF i = Len(links) THEN "wait"
                                                   ELSE "submit"]
           IN  IF Submits(links[i], visited_urls)
               THEN tasks' = (c :> NewTask(links[i], tasks[t].depth + 1, "pending"))
                                 @@ advanced
               ELSE tasks' = advanced
        /\ UNCHANGED <<config, crawl_calls, mainPc, parser, robots_reads,
                       visited_urls, results>>

\* the end of the with block (line 99) and line 105
ReturnResult ==
    \E t \in TaskIds :
        /\ tasks[t].pc = "wait"
        /\ ShutdownDone({tasks[c].pc : c \in Children(t)})
        /\ LET value == ReturnValue(tasks[t].result,
                                    [c \in Children(t) |-> tasks[c].result])
           IN  tasks' = [tasks EXCEPT ![t] = Returned(@, value)]
        /\ UNCHANGED <<config, crawl_calls, mainPc, parser, robots_reads,
                       visited_urls, results>>

\* SEOCrawler.crawl, lines 114-115: self.results = <the root's value>; return
CrawlReturn ==
    /\ mainPc = "crawling"
    /\ tasks[<< >>].pc = "returned"
    /\ results' = tasks[<< >>].result
    /\ mainPc' = "returned"
    /\ UNCHANGED <<config, crawl_calls, parser, robots_reads, visited_urls, tasks>>

Webs == [site : {"std"}, robots : RobotsOutcomes, headings : {OneH1OneH2}]

InitWith(W, B, D, I) ==
    /\ web \in W
    /\ base_url \in B
    /\ self_depth = D
    /\ ignore_robots \in I
    /\ crawl_calls = 0
    /\ mainPc = "start"
    /\ parser = NewRobotFileParser
    /\ robots_reads = 0
    /\ visited_urls = {}
    /\ tasks = << >>
    /\ results = Empty

Init == InitWith(Webs, {BaseUrl, BadBaseUrl}, MaxDepth, BOOLEAN)

Next ==
    \/ Construct
    \/ Crawl
    \/ StartTask
    \/ CheckVisited
    \/ RobotsGate
    \/ MarkVisited
    \/ FetchPage
    \/ AnalyzeContent
    \/ SubmitLink
    \/ ReturnResult
    \/ CrawlReturn

Spec == Init /\ [][Next]_vars

\* The same crawler, honouring the robots.txt of the wide site.
InitWide ==
    InitWith([site : {"wide"}, robots : {"rules"}, headings : {OneH1OneH2}],
             {BaseUrl}, MaxDepth, {FALSE})

SpecWide == InitWide /\ [][Next]_vars

\* The wide run with threads that are scheduled: as long as some thread can
\* take a step, a step is taken.
FairSpecWide == SpecWide /\ WF_vars(Next)

\* The same crawler run against the link site.
InitLink ==
    InitWith([site : {"link"}, robots : {"rules"}, headings : {OneH1OneH2}],
             {BaseUrl}, MaxDepth, {FALSE})

SpecLink == InitLink /\ [][Next]_vars

\* The same crawler run one level deeper against the diamond site.
InitDiamond ==
    InitWith([site : {"diamond"}, robots : {"rules"}, headings : {OneH1OneH2}],
             {BaseUrl}, MaxDepth + 1, {FALSE})

SpecDiamond == InitDiamond /\ [][Next]_vars

\* The same crawler run against the heading site, whose pages carry any
\* number up to MaxHeadingCount of headings of each level.
InitHeading ==
    InitWith([site : {"heading"}, robots : {"rules"},
              headings : [HeadingLevels -> 0..MaxHeadingCount]],
             {BaseUrl}, MaxDepth, {FALSE})

SpecHeading == InitHeading /\ [][Next]_vars

-----------------------------------------------------------------------------
(* Vocabulary of the properties.                                           *)

IsReturned(t) == tasks[t].pc = "returned"
IsPageRecord(r) == "seo_metrics" \in DOMAIN r
IsErrorRecord(r) == "error" \in DOMAIN r

\* the analyze_page invocations that requested url from the site
Fetchers(url) == {t \in TaskIds : tasks[t].fetched /\ tasks[t].url = url}

\* the request of task t raised
FetchFailed(t) ==
    tasks[t].fetched /\ HttpGet(web, tasks[t].url).outcome = "raise"

\* the Disallow lines of the site's robots.txt cover url
Disallowed(url) == ~Allowance(RobotsRules, url.path)

\* tasks that are running statements of analyze_page (not queued, not done,
\* not blocked in the shutdown of their own executor)
Executing == {t \in TaskIds : tasks[t].pc \notin {"pending", "returned", "wait"}}

\* r is tree or is nested somewhere below it
RECURSIVE InTree(_, _)
InTree(r, tree) ==
    \/ r = tree
    \/ /\ "children" \in DOMAIN tree
       /\ \E c \in DOMAIN tree.children : InTree(r, tree.children[c])

-----------------------------------------------------------------------------
\* C1: no URL is fetched by more than one analyze_page invocation of a run,
\* under every interleaving of the concurrent tasks.
C1_NoUrlFetchedTwice ==
    \A t1, t2 \in TaskIds :
        tasks[t1].fetched /\ tasks[t2].fetched /\ tasks[t1].url = tasks[t2].url
            => t1 = t2

\* C2: beyond the maximum depth nothing is fetched and no record is produced;
\* an invocation at exactly the maximum depth that passed the visited check
\* and the robots gate is fetched, and analysed when the page allows it.
C2_DepthBound ==
    \A t \in TaskIds :
        /\ tasks[t].depth > self_depth =>
               /\ ~tasks[t].fetched
               /\ tasks[t].pc \in {"pending", "check", "returned"}
               /\ tasks[t].result = Empty
        /\ tasks[t].depth = self_depth /\ IsReturned(t) =>
               /\ ~tasks[t].fetched =>
                      \/ tasks[t].url \in visited_urls
                      \/ ~ignore_robots /\ ~CanFetch(parser, tasks[t].url)
               /\ tasks[t].fetched /\ tasks[t].page.analysable =>
                      /\ IsPageRecord(tasks[t].result)
                      /\ tasks[t].result.depth = self_depth

C2_Witness ==
    /\ mainPc = "returned"
    /\ \E t \in TaskIds : tasks[t].depth = self_depth /\ IsPageRecord(tasks[t].result)
    /\ \E t \in TaskIds : tasks[t].depth = self_depth + 1 /\ IsReturned(t)

\* C3: with ignore_robots false and a robots.txt that was read and parsed, a
\* URL its rules disallow is never fetched and its invocation returns no
\* record; once the parent has returned, every permitted link of the same
\* parent within the depth bound has been fetched.
C3_DisallowedSkipped ==
    (web.robots = "rules" /\ ~ignore_robots) =>
        \A t \in TaskIds :
            Disallowed(tasks[t].url) =>
                /\ ~tasks[t].fetched
                /\ tasks[t].result = Empty
                /\ (t # << >> /\ IsReturned(Parent(t))
                        /\ tasks[t].depth <= self_depth) =>
                       \A i \in 1..Len(tasks[Parent(t)].result.links) :
                           LET link == tasks[Parent(t)].result.links[i]
                           IN  ~Disallowed(link) => Fetchers(link) # {}

C3_Witness ==
    /\ web.robots = "rules" /\ ~ignore_robots
    /\ mainPc = "returned"
    /\ \E t \in TaskIds :
           /\ Disallowed(tasks[t].url) /\ IsReturned(t) /\ t # << >>
           /\ \E s \in Children(Parent(t)) : IsPageRecord(tasks[s].result)

\* C4: when crawl has returned, the record of every page that was fetched and
\* analysed during the run is contained in the returned result tree.
C4_ResultHoldsEveryRecord ==
    mainPc = "returned" =>
        \A t \in TaskIds :
            IsReturned(t) /\ IsPageRecord(tasks[t].result)
                => InTree(tasks[t].result, results)

\* C5: an invocation has returned only if every child it submitted has
\* returned, and when crawl has returned every invocation has returned.
C5_ReturnsAfterChildren ==
    /\ \A t \in TaskIds : IsReturned(t) => \A c \in Children(t) : IsReturned(c)
    /\ mainPc = "returned" => \A t \in TaskIds : IsReturned(t)

C5_Witness ==
    /\ mainPc = "returned"
    /\ \E t \in TaskIds : Len(t) = 2

\* C6 as stated: at most five invocations are executing at any moment of
\* the whole crawl.
C6_AtMostFiveOverall == Cardinality(Executing) <= MaxWorkers

\* C6 as amended: at most five of the children submitted by any one
\* invocation are being run at any moment.
C6_AtMostFivePerPage ==
    \A t \in TaskIds :
        Cardinality({c \in Children(t) : Started(c)}) <= MaxWorkers

C6_Witness ==
    \E t \in TaskIds :
        /\ Cardinality({c \in Children(t) : Started(c)}) = MaxWorkers
        /\ \E c \in Children(t) : tasks[c].pc = "pending"

\* C7: when an invocation ended in an error record, every ancestor that has
\* returned returned the record built from its own page alone, and the
\* siblings of the failed invocation have returned their own outcome once
\* the parent has returned.
C7_FailureIsolated ==
    \A c \in TaskIds :
        (IsReturned(c) /\ IsErrorRecord(tasks[c].result)) =>
            /\ \A n \in 0..(Len(c) - 1) :
                   LET a == SubSeq(c, 1, n)
                   IN  IsReturned(a) =>
                           tasks[a].result =
                               PageResult(tasks[a].url, tasks[a].depth,
                                          HttpGet(web, tasks[a].url))
            /\ (c # << >> /\ IsReturned(Parent(c))) =>
                   \A s \in Children(Parent(c)) :
                       /\ IsReturned(s)
                       /\ IsPageRecord(tasks[s].result) =>
                              tasks[s].result =
                                  PageResult(tasks[s].url, tasks[s].depth,
                                             HttpGet(web, tasks[s].url))

C7_Witness ==
    /\ mainPc = "returned"
    /\ IsPageRecord(results)
    /\ \E c \in Children(<< >>) :
           /\ IsErrorRecord(tasks[c].result)
           /\ \E s \in Children(<< >>) : IsPageRecord(tasks[s].result)

\* C8 as stated: after a failed fetch the returned record has exactly the
\* keys url, depth and error, and the page has no children.
C8_ErrorRecordUrlDepthError ==
    \A t \in TaskIds :
        (FetchFailed(t) /\ IsReturned(t)) =>
            /\ DOMAIN tasks[t].result = {"url", "depth", "error"}
            /\ Children(t) = {}

\* C8 as amended: after a failed fetch the returned record has exactly the
\* keys url and error, url is the requested URL, and the page has no
\* children.
C8_ErrorRecordUrlError ==
    \A t \in TaskIds :
        FetchFailed(t) =>
            /\ IsReturned(t)
            /\ DOMAIN tasks[t].result = {"url", "error"}
            /\ tasks[t].result.url = tasks[t].url
            /\ Children(t) = {}

C8_Witness ==
    \E t \in TaskIds : FetchFailed(t) /\ IsReturned(t) /\ IsErrorRecord(tasks[t].result)

\* C9: a response with a non-success status makes the page an error record,
\* no metrics are computed from its body and no link of it is submitted.
C9_BadStatusIsFailure ==
    \A t \in TaskIds :
        (tasks[t].fetched /\ tasks[t].page.outcome = "response"
             /\ tasks[t].page.status \notin 200..299) =>
            /\ ~IsPageRecord(tasks[t].result)
            /\ IsReturned(t) => IsErrorRecord(tasks[t].result)
            /\ Children(t) = {}

\* C10: when reading robots.txt failed (network error, undecodable file or
\* an HTTP error status), can_fetch answers true for every URL asked.
C10_FailedLoadPermits ==
    (mainPc # "start" /\ web.robots # "rules") =>
        \A t \in TaskIds : CanFetch(parser, tasks[t].url)

-----------------------------------------------------------------------------
\* the invocations that asked the robots gate (can_fetch was called)
Checkers == {t \in TaskIds : tasks[t].checked}

\* C11 as stated: robots.txt is fetched once, and that fetch is made by the
\* first permission check: before any check nothing has been fetched.
C11_FetchedByFirstCheck ==
    crawl_calls <= 1 => robots_reads = (IF Checkers # {} THEN 1 ELSE 0)

\* C11 as amended: robots.txt is fetched once, when the crawler is
\* constructed; no permission check fetches it again.
C11_FetchedOnceAtConstruction ==
    robots_reads = (IF mainPc = "start" THEN 0 ELSE 1)

C11_Witness ==
    /\ robots_reads = 1
    /\ Cardinality(Checkers) >= 2
    /\ mainPc = "returned"

-----------------------------------------------------------------------------
\* the anchors of a page whose href is neither empty nor a pure fragment
RealHrefs(anchors) ==
    SelectSeq(anchors, LAMBDA a : a.href.kind \notin {"frag", "empty"})

\* C12: the links of a page record are the resolved URLs of all anchors of
\* the fetched page that pass the validity filter, in document order, with
\* duplicates, wherever in the page the anchor sits.
C12_LinksOfEveryAnchor ==
    \A t \in TaskIds :
        IsPageRecord(tasks[t].result) =>
            tasks[t].result.links = ExtractFrom(tasks[t].page.anchors, tasks[t].url)

\* C13: the analyzers leave the parsed page as it was, and running them
\* again on the parsed page they left gives the same metrics.
C13_PipelineKeepsSoup ==
    \A t \in TaskIds :
        IsPageRecord(tasks[t].result) =>
            /\ tasks[t].soup = Parse(tasks[t].page)
            /\ LET again == Analyze(tasks[t].url, tasks[t].soup, tasks[t].page)
               IN  /\ again.seo_metrics = tasks[t].result.seo_metrics
                   /\ again.performance_metrics = tasks[t].result.performance_metrics
                   /\ again.content_metrics = tasks[t].result.content_metrics

\* C14: an anchor whose href is empty or a pure fragment contributes no
\* entry to the links of a page record, and no invocation is submitted for it.
C14_FragmentsDropped ==
    \A t \in TaskIds :
        /\ IsPageRecord(tasks[t].result) =>
               tasks[t].result.links =
                   ExtractFrom(RealHrefs(tasks[t].soup.anchors), tasks[t].url)
        /\ tasks[t].url.fragment = ""

\* C15 as stated: every URL that is fetched is a well-formed absolute URL
\* with the scheme and the host of the base URL.
C15_SameSchemeAndHost ==
    \A t \in TaskIds :
        tasks[t].fetched =>
            /\ ValidatorsUrl(tasks[t].url)
            /\ tasks[t].url.scheme = base_url.scheme
            /\ tasks[t].url.netloc = base_url.netloc

\* C15 as amended: every discovered link that is submitted, and so every one
\* that is fetched, is a well-formed absolute URL with the host of the base
\* URL; the scheme is not compared.
C15_SameHost ==
    \A t \in TaskIds :
        t # << >> =>
            /\ ValidatorsUrl(tasks[t].url)
            /\ tasks[t].url.netloc = base_url.netloc

C15_Witness ==
    /\ mainPc = "returned"
    /\ \E t \in TaskIds :
           /\ tasks[t].fetched
           /\ tasks[t].url.scheme # base_url.scheme
           /\ tasks[t].url.netloc = base_url.netloc
    /\ \E i \in 1..Len(tasks[<< >>].page.anchors) :
           LET u == UrlJoin(base_url, tasks[<< >>].page.anchors[i].href)
           IN  ValidatorsUrl(u) /\ u.netloc # base_url.netloc

-----------------------------------------------------------------------------
\* C16: with a base URL that is no URL the run stops in the constructor:
\* nothing is fetched, crawl is not entered and no result is produced.
C16_BadBaseAborts ==
    ~ValidatorsUrl(base_url) =>
        /\ mainPc = "start"
        /\ robots_reads = 0
        /\ tasks = << >>
        /\ results = Empty

\* C17: every invocation of crawl starts from an empty visited set, and the
\* base URL is fetched in it unless the robots gate refuses it.
C17_CrawlStartsFresh ==
    /\ (mainPc = "crawling" /\ tasks[<< >>].pc = "check") => visited_urls = {}
    /\ (mainPc = "returned" /\ ~RobotsBlocked(ignore_robots, parser, base_url))
           => tasks[<< >>].fetched

\* the robots gate lets url through
Permitted(url) == ~RobotsBlocked(ignore_robots, parser, url)

\* the links extracted from the page at url, if it is permitted, answers and
\* can be analysed
LinksAt(url) ==
    LET page == HttpGet(web, url)
    IN  IF Permitted(url) /\ page.outcome = "response" /\ page.analysable
        THEN LET links == PageResult(url, 0, page).links
             IN  {links[i] : i \in 1..Len(links)}
        ELSE {}

\* the URLs at most k link hops away from the base URL
RECURSIVE ReachWithin(_)
ReachWithin(k) ==
    IF k = 0 THEN {base_url}
    ELSE LET near == ReachWithin(k - 1)
         IN  near \cup UNION {LinksAt(u) : u \in near}

\* C18: when crawl has returned, every permitted URL within self.depth link
\* hops of the base URL has been fetched, under every interleaving.
C18_ReachableFetched ==
    (mainPc = "returned" /\ crawl_calls = 1) =>
        \A u \in ReachWithin(self_depth) : Permitted(u) => Fetchers(u) # {}

-----------------------------------------------------------------------------
\* the state of a crawl target, read off the position of its invocation
Phase(task) ==
    CASE task.pc = "pending" -> "Pending"
      [] task.pc \in {"check", "gate"} -> "Gated"
      [] task.pc \in {"add", "fetch"} -> "Fetching"
      [] task.pc = "analyze" -> "Fetched"
      [] task.pc = "submit" -> "Analyzed"
      [] task.pc = "wait" -> "Dispatched"
      [] task.pc = "returned" /\ IsErrorRecord(task.result) -> "Failed"
      [] task.pc = "returned" /\ IsPageRecord(task.result) -> "Dispatched"
      [] OTHER -> "Skipped"

StatedPaths ==
    { <<"Pending", "Gated", "Skipped">>,
      <<"Pending", "Gated", "Fetching", "Failed">>,
      <<"Pending", "Gated", "Fetching", "Fetched", "Analyzed", "Dispatched">> }

AmendedPaths ==
    StatedPaths \cup { <<"Pending", "Gated", "Fetching", "Fetched", "Failed">> }

\* q comes after p on one of the paths
Along(paths, p, q) ==
    \E path \in paths : \E i, j \in 1..Len(path) :
        i < j /\ path[i] = p /\ path[j] = q

\* one step of one crawl run, as the lifecycle allows it
LifecycleStep(paths) ==
    crawl_calls' = crawl_calls =>
        /\ \A t \in TaskIds :
               /\ \/ Phase(tasks'[t]) = Phase(tasks[t])
                  \/ Along(paths, Phase(tasks[t]), Phase(tasks'[t]))
               /\ tasks[t].pc = "returned" => tasks'[t] = tasks[t]
        /\ \A u \in visited_urls' \ visited_urls :
               \E t \in TaskIds :
                   /\ tasks[t].url = u
                   /\ tasks[t].pc = "add"
                   /\ tasks[t].depth <= self_depth
                   /\ Permitted(u)
        /\ \A t \in DOMAIN tasks' :
               (tasks'[t].pc = "fetch" \/ tasks'[t].fetched)
                   => tasks'[t].url \in visited_urls'
        /\ \A u \in visited_urls' : Permitted(u)

\* C19 as stated: a target moves only along Pending, Gated, Skipped, or
\* Pending, Gated, Fetching, Failed, or Pending, Gated, Fetching, Fetched,
\* Analyzed, Dispatched; insertion into the visited set follows the check
\* and the gate and precedes the fetch; a URL refused by robots is never
\* inserted; a returned invocation does not change any more.
C19_LifecycleAsStated == [][LifecycleStep(StatedPaths)]_vars

\* C19 as amended: the same, with the further path Pending, Gated, Fetching,
\* Fetched, Failed for a page that was fetched and on which parsing or an
\* analyzer raised.
C19_Lifecycle == [][LifecycleStep(AmendedPaths)]_vars

C19_Witness ==
    /\ mainPc = "returned"
    /\ \E t \in TaskIds :
           /\ IsErrorRecord(tasks[t].result)
           /\ tasks[t].page.outcome = "response"
    /\ \E t \in TaskIds : FetchFailed(t)
    /\ \E t \in TaskIds : IsPageRecord(tasks[t].result) /\ IsReturned(t)

-----------------------------------------------------------------------------
\* C20: a crawl that was started returns, with every invocation it
\* submitted returned: no invocation waits for ever for its children.
C20_CrawlReturns ==
    (mainPc = "crawling") ~>
        (mainPc = "returned" /\ \A t \in TaskIds : IsReturned(t))

C20_Witness ==
    /\ mainPc = "returned"
    /\ Cardinality(Children(<< >>)) > MaxWorkers
    /\ \E t \in TaskIds : Len(t) = 2 /\ IsReturned(t)

-----------------------------------------------------------------------------
\* C21: the base URL is analysed at depth 0; every analysis dispatched from
\* a page analysed at depth d is invoked with depth d + 1; the depth stored
\* in a successful page record is the depth its analysis was invoked with.
C21_DepthIsParentsPlusOne ==
    /\ \A t \in TaskIds :
           /\ t = << >> => tasks[t].url = base_url /\ tasks[t].depth = 0
           /\ t # << >> => tasks[t].depth = tasks[Parent(t)].depth + 1
           /\ IsPageRecord(tasks[t].result)
                  => tasks[t].result.depth = tasks[t].depth
    /\ IsPageRecord(results) => results.depth = 0

C21_Witness ==
    /\ mainPc = "returned"
    /\ IsPageRecord(results)
    /\ \E t \in TaskIds :
           Len(t) = 1 /\ IsReturned(t) /\ IsPageRecord(tasks[t].result)
    /\ \E t \in TaskIds : Len(t) = 2 /\ IsReturned(t)

-----------------------------------------------------------------------------
\* Some level N > 1 is populated, a lower level is populated, and the levels
\* between the nearest populated lower level and N, of which there is one
\* at least, are unpopulated.
LevelSkipped(headings) ==
    \E N \in HeadingLevels, L \in HeadingLevels :
        /\ L + 1 < N
        /\ headings[L] > 0 /\ headings[N] > 0
        /\ \A j \in (L + 1)..(N - 1) : headings[j] = 0

ReportsSkip(issues) ==
    \E k \in 1..Len(issues) : issues[k].issue = "Skipped heading level"

\* C22: for every combination of h1 .. h6 counts the heading check of an
\* analysed page reports a skipped-level issue whenever a populated level
\* N > 1 is separated from the nearest populated lower level by one or more
\* unpopulated levels (h1 and h3 present, h2 absent), and reports no issue
\* at all for exactly one h1, one h2 and no h3 .. h6.
C22_SkippedLevelsReported ==
    \A t \in TaskIds :
        IsPageRecord(tasks[t].result) =>
            LET headings == tasks[t].page.headings
                issues == tasks[t].result.seo_metrics.headings.heading_structure_issues
            IN  /\ issues = CheckHeadingStructure(headings)
                /\ LevelSkipped(headings) => ReportsSkip(issues)
                /\ headings = OneH1OneH2 => issues = << >>

====
